---- MODULE Spec2Model ----
(***************************************************************************)
(* gotail: a Tail follows a file by name.  NewTail runs openAndWatch,      *)
(* which starts a retry goroutine (openFile + watchFile in a loop) and,    *)
(* when Config.Timeout # 0, a timer goroutine; both send on one channel    *)
(* of capacity 1 that the caller receives from once.  watchFile starts a   *)
(* watcher goroutine that serves the fsnotify events: Create, Rename and   *)
(* Remove call openAndWatch again, Write calls readLines once.             *)
(*                                                                         *)
(* A file is a sequence of bytes: 0 is '\n', a positive number is a data   *)
(* byte, numbered in the order the bytes are written (so every line of     *)
(* every file is distinct).  A line sent on Lines is the sequence of its   *)
(* bytes.                                                                  *)
(*                                                                         *)
(* Granularity.  Each action is one step of one goroutine between two      *)
(* accesses to what it shares with the others (the Tail's fields, the      *)
(* channels, the file system).  The goroutines share var err, var newFile  *)
(* and the Tail's fields without synchronisation; a racing read sees the   *)
(* value before or after the racing write, which the interleaving of the   *)
(* actions gives.  The timer's send evaluates err when the send is made.   *)
(* ReadString is one step (two goroutines inside bufio at once are not     *)
(* explored).                                                              *)
(*                                                                         *)
(* Environment.  os.Open fails exactly when the path does not exist;       *)
(* Seek and fsnotify.NewWatcher do not fail; Watcher.Add fails exactly     *)
(* when the path does not exist; the Errors channel carries nothing and    *)
(* is closed with Events.  A watcher reports Write, Rename and Remove of   *)
(* the file it was added on, and Create of a file at the path.             *)
(***************************************************************************)
EXTENDS Naturals, Sequences, FiniteSets

\* Bounds of the environment: how many times it appends one line, two lines
\* at once, or bytes without a newline; how many times it renames or removes
\* the file, and creates it again; how many times the caller calls Close.
MaxLines == 2
MaxDoubles == 1
MaxPartials == 1
MaxRotations == 1
MaxCreates == 1
MaxCloses == 1

\* The runs explored: whether the path exists at NewTail, Config.Timeout, and
\* what the environment and the caller may do.
Scenario(e, to, l, d, p, r, c, cl) ==
    [exists |-> e, timeout |-> to, lines |-> l, doubles |-> d, partials |-> p,
     rotations |-> r, creates |-> c, closes |-> cl]

\* the file exists and stays: appends of single lines, then Close
FollowScenarios ==
    {Scenario(TRUE, to, MaxLines, 0, 0, 0, 0, MaxCloses) : to \in {0, 1}}

\* the file exists and stays: an append of two lines, or of half a line
BurstScenarios ==
    {Scenario(TRUE, to, 1, MaxDoubles, MaxPartials, 0, 0, 0) : to \in {0, 1}}

\* the path does not exist at NewTail and the file is created later
StartScenarios ==
    {Scenario(FALSE, to, MaxLines, 0, 0, 0, MaxCreates, MaxCloses) : to \in {0, 1}}

\* the file is renamed away or removed, and created again
RotateScenarios ==
    {Scenario(TRUE, 0, MaxLines, 0, 0, MaxRotations, MaxCreates, 0)}

\* the same, and the caller calls Close
RotateCloseScenarios ==
    {Scenario(TRUE, 0, 1, 0, 0, MaxRotations, MaxCreates, MaxCloses)}

\* the file is rotated once more than in RotateScenarios
RotateAgainScenarios ==
    {Scenario(TRUE, 0, 1, 0, 0, MaxRotations + 1, MaxCreates + 1, 0)}

Scenarios ==
    FollowScenarios \cup BurstScenarios \cup StartScenarios
        \cup RotateScenarios \cup RotateCloseScenarios \cup RotateAgainScenarios

\* Config.Timeout is 0 or 1 (seconds; the model has no clock: a timer that
\* was started may fire at any moment).

NL == 0
Nil == 0
\* t.reader == nil
NoReader == [h |-> 0, pos |-> 0]

\* error values
ErrNil == "nil"
ErrNotExist == "ENOENT"
ErrWatch == "EWATCH"

\* fsnotify.Op
Create == "Create"
Write == "Write"
Remove == "Remove"
Rename == "Rename"

VARIABLES
    config,     \* Config.Timeout
    path,       \* the inode at t.fname, Nil when the path does not exist
    content,    \* content[i]: the bytes of inode i
    budget,     \* what the environment may still do: [writes, rotations]
    handles,    \* every *os.File ever opened: [ino, off, closed], and as
                \* history the size of the file when it was opened (base),
                \* the offset it started at (from), the call that opened
                \* it (by)
    watchers,   \* every *fsnotify.Watcher ever made: [ino, closed, q]
    t,          \* the Tail: [file, reader, watcher]
    oaw,        \* the calls of openAndWatch: [err, newFile, timeout, retry,
                \* timer], and as history the event that made the call (op)
    gs,         \* the goroutines started by watchFile: [pc, newFile, w, k, line]
    client,     \* the caller of NewTail and Close: [pc, err]
    received,   \* what the consumer has received from Lines, in order
    crashed,    \* log.Fatalln has ended the process
    hist        \* history of the run (not program state)

vars == <<config, path, content, budget, handles, watchers, t, oaw, gs,
          client, received, crashed, hist>>

----------------------------------------------------------------------------
\* Helpers on sequences of bytes

RECURSIVE TrimRight(_)
\* strings.TrimRight(line, "\n"): every trailing newline is cut
TrimRight(s) ==
    IF s # <<>> /\ s[Len(s)] = NL THEN TrimRight(SubSeq(s, 1, Len(s) - 1)) ELSE s

\* index of the first newline of c in (from .. to], 0 when there is none
FirstNL(c, from, to) ==
    LET idx == {j \in (from + 1)..to : c[j] = NL}
    IN  IF idx = {} THEN 0 ELSE CHOOSE j \in idx : \A i \in idx : j <= i

RECURSIVE CountData(_)
CountData(s) ==
    IF s = <<>> THEN 0
    ELSE (IF Head(s) # NL THEN 1 ELSE 0) + CountData(Tail(s))

RECURSIVE SumData(_, _)
SumData(cs, i) ==
    IF i = 0 THEN 0 ELSE CountData(cs[i]) + SumData(cs, i - 1)

\* the number of the next data byte written
NextByte == SumData(content, Len(content)) + 1

RECURSIVE LinesOf(_)
\* the complete lines of a sequence of bytes, newline stripped
LinesOf(s) ==
    LET j == FirstNL(s, 0, Len(s))
    IN  IF j = 0 THEN <<>>
        ELSE <<SubSeq(s, 1, j - 1)>> \o LinesOf(SubSeq(s, j + 1, Len(s)))

----------------------------------------------------------------------------
\* The pre-existing file of the scenarios where the path exists at NewTail
InitContent == <<1, NL>>

\* a call of openAndWatch: var err, var newFile, the channel, and the two
\* goroutines (the timer only when Timeout # 0); op is NewTail for the first
\* call and the event received for the others
NewCall == [err |-> ErrNil, newFile |-> FALSE, timeout |-> <<>>,
            retry |-> "open",
            timer |-> IF config = 0 THEN "none" ELSE "sleep",
            op |-> "NewTail"]

InitOf(scenarios) ==
    /\ \E sc \in scenarios :
          /\ config = sc.timeout
          /\ path = IF sc.exists THEN 1 ELSE Nil
          /\ content = IF sc.exists THEN <<InitContent>> ELSE <<>>
          /\ budget = [lines |-> sc.lines, doubles |-> sc.doubles,
                       partials |-> sc.partials, rotations |-> sc.rotations,
                       creates |-> sc.creates, closes |-> sc.closes]
          /\ hist = [existed |-> sc.exists, missed |-> FALSE, multi |-> FALSE,
                     late |-> FALSE]
    /\ handles = <<>>
    /\ watchers = <<>>
    /\ t = [file |-> Nil, reader |-> NoReader, watcher |-> Nil]
    /\ oaw = <<NewCall>>
    /\ gs = <<>>
    /\ client = [pc |-> "wait", err |-> ErrNil]
    /\ received = <<>>
    /\ crashed = FALSE

----------------------------------------------------------------------------
\* os.File.Close and fsnotify.Watcher.Close.  Closing a watcher closes its
\* Events and Errors channels; events not yet received are gone.

CloseFile(hs, h) ==
    IF h = Nil THEN hs ELSE [hs EXCEPT ![h].closed = TRUE]

CloseWatcher(ws, w) ==
    IF w = Nil THEN ws ELSE [ws EXCEPT ![w].closed = TRUE, ![w].q = <<>>]

\* the event source: op is queued on every open watcher that watches inode i
\* (Write, Rename, Remove), or that watches the path at all (Create)
Post(ws, op, i) ==
    [w \in DOMAIN ws |->
        IF /\ ~ws[w].closed
           /\ ws[w].ino # Nil
           /\ (op = Create \/ ws[w].ino = i)
        THEN [ws[w] EXCEPT !.q = Append(@, op)]
        ELSE ws[w]]

----------------------------------------------------------------------------
\* openAndWatch's retry goroutine, call k

\* openFile, first half: the handle the Tail holds is closed
RetryOpenClose(k) ==
    /\ ~crashed
    /\ oaw[k].retry = "open"
    /\ handles' = CloseFile(handles, t.file)
    /\ oaw' = [oaw EXCEPT ![k].retry = "open2"]
    /\ UNCHANGED <<config, path, content, budget, watchers, t, gs, client,
                   received, crashed, hist>>

\* (faulty variants of SeekOffset, against which the properties are tried:
\* Seek is never called; Seek is always called)
SeekOffset_NoSeek(newFile, size) == 0

SeekOffset_AlwaysEnd(newFile, size) == size

\* the offset a new handle starts at: the end of the file unless newFile
SeekOffset(newFile, size) == IF newFile THEN 0 ELSE size

\* (faulty variant of AfterOpenError: the loop continues whatever the timeout)
AfterOpenError_Continue(timeout) == "open"

\* where the retry loop goes when openFile failed: break after the send when
\* Timeout is 0, continue otherwise
AfterOpenError(timeout) == IF timeout = 0 THEN "done" ELSE "open"

\* openFile, second half, and what the loop does with its error
RetryOpen(k) ==
    /\ ~crashed
    /\ oaw[k].retry = "open2"
    /\ IF path = Nil
       THEN /\ t' = [t EXCEPT !.file = Nil]
            /\ handles' = handles
            /\ oaw' = [oaw EXCEPT
                          ![k].err = ErrNotExist,
                          ![k].newFile = TRUE,
                          ![k].timeout = IF config = 0
                                         THEN Append(@, ErrNotExist) ELSE @,
                          ![k].retry = AfterOpenError(config)]
       ELSE LET h == Len(handles) + 1
                off == SeekOffset(oaw[k].newFile, Len(content[path]))
            IN  /\ handles' = Append(handles,
                                 [ino |-> path, off |-> off, closed |-> FALSE,
                                  base |-> Len(content[path]),
                                  from |-> off, by |-> k])
                /\ t' = [t EXCEPT !.file = h,
                                  !.reader = [h |-> h, pos |-> off]]
                /\ oaw' = [oaw EXCEPT ![k].err = ErrNil, ![k].retry = "watch"]
    /\ UNCHANGED <<config, path, content, budget, watchers, gs, client,
                   received, crashed, hist>>

\* watchFile, first half: the watcher the Tail holds is closed
RetryWatchClose(k) ==
    /\ ~crashed
    /\ oaw[k].retry = "watch"
    /\ watchers' = CloseWatcher(watchers, t.watcher)
    /\ oaw' = [oaw EXCEPT ![k].retry = "watch2"]
    /\ UNCHANGED <<config, path, content, budget, handles, t, gs, client,
                   received, crashed, hist>>

\* watchFile, second half: NewWatcher, Add, go; and the loop's test of err
RetryWatch(k) ==
    /\ ~crashed
    /\ oaw[k].retry = "watch2"
    /\ LET w == Len(watchers) + 1
       IN  /\ watchers' = Append(watchers,
                               [ino |-> path, closed |-> FALSE, q |-> <<>>])
           /\ t' = [t EXCEPT !.watcher = w]
           /\ IF path = Nil
              THEN /\ oaw' = [oaw EXCEPT ![k].err = ErrWatch,
                                         ![k].retry = "open"]
                   /\ gs' = gs
              ELSE /\ oaw' = [oaw EXCEPT ![k].err = ErrNil,
                                         ![k].retry = "send"]
                   /\ gs' = Append(gs, [pc |-> "start",
                                        newFile |-> oaw[k].newFile,
                                        w |-> Nil, k |-> Nil, line |-> <<>>])
    /\ UNCHANGED <<config, path, content, budget, handles, client,
                   received, crashed, hist>>

\* timeout <- nil
RetrySend(k) ==
    /\ ~crashed
    /\ oaw[k].retry = "send"
    /\ Len(oaw[k].timeout) < 1
    /\ oaw' = [oaw EXCEPT ![k].timeout = Append(@, ErrNil), ![k].retry = "done"]
    /\ UNCHANGED <<config, path, content, budget, handles, watchers, t, gs,
                   client, received, crashed, hist>>

\* the timer goroutine: time.Sleep is over, timeout <- err
TimerFire(k) ==
    /\ ~crashed
    /\ oaw[k].timer = "sleep"
    /\ Len(oaw[k].timeout) < 1
    /\ oaw' = [oaw EXCEPT ![k].timeout = Append(@, oaw[k].err),
                          ![k].timer = "done"]
    /\ UNCHANGED <<config, path, content, budget, handles, watchers, t, gs,
                   client, received, crashed, hist>>

----------------------------------------------------------------------------
\* bufio.Reader.ReadString('\n') on the reader r = [h, pos].  The bytes the
\* reader holds unread are those of the file from pos to the handle's offset.
\* A line that ends in the buffer is returned from it; otherwise the handle
\* is read to its end (an error when it is closed), and either the line ends
\* in what was read, or everything unread is returned with io.EOF.
\* The result: the bytes returned, "ok" | "eof" | "err", the new pos and off.
ReadString(r) ==
    LET hd == handles[r.h]
        c == content[hd.ino]
        inBuf == FirstNL(c, r.pos, hd.off)
        inFile == FirstNL(c, r.pos, Len(c))
    IN  IF inBuf # 0
        THEN [line |-> SubSeq(c, r.pos + 1, inBuf), res |-> "ok",
              pos |-> inBuf, off |-> hd.off]
        ELSE IF hd.closed
        THEN [line |-> SubSeq(c, r.pos + 1, hd.off), res |-> "err",
              pos |-> hd.off, off |-> hd.off]
        ELSE IF inFile # 0
        THEN [line |-> SubSeq(c, r.pos + 1, inFile), res |-> "ok",
              pos |-> inFile, off |-> Len(c)]
        ELSE [line |-> SubSeq(c, r.pos + 1, Len(c)), res |-> "eof",
              pos |-> Len(c), off |-> Len(c)]

\* readLines returns without sending exactly when the read ended in io.EOF
SendsLine(res) == res # "eof"

----------------------------------------------------------------------------
\* The goroutine g started by watchFile

\* back at the top of the for loop: the select receives from the Events
\* channel of the watcher the Tail holds at this moment
AtSelect(g) == [pc |-> "select", newFile |-> gs[g].newFile, w |-> t.watcher,
                k |-> Nil, line |-> <<>>]

\* readLines, up to the send on Lines
DoReadLines(g) ==
    IF t.reader.h = Nil
    THEN /\ gs' = [gs EXCEPT ![g] = AtSelect(g)]
         /\ UNCHANGED <<handles, t>>
    ELSE LET rd == ReadString(t.reader)
         IN  /\ handles' = [handles EXCEPT ![t.reader.h].off = rd.off]
             /\ t' = [t EXCEPT !.reader.pos = rd.pos]
             /\ gs' = IF SendsLine(rd.res)
                      THEN [gs EXCEPT ![g].pc = "send",
                                      ![g].line = TrimRight(rd.line)]
                      ELSE [gs EXCEPT ![g] = AtSelect(g)]

\* the goroutine starts: readLines when the file is new, then the loop
GStart(g) ==
    /\ ~crashed
    /\ gs[g].pc = "start"
    /\ IF gs[g].newFile
       THEN DoReadLines(g)
       ELSE /\ gs' = [gs EXCEPT ![g] = AtSelect(g)]
            /\ UNCHANGED <<handles, t>>
    /\ UNCHANGED <<config, path, content, budget, watchers, oaw, client,
                   received, crashed, hist>>

Disruptive(op) == op \in {Create, Rename, Remove}

\* the select: the channel is closed, or an event is received
GSelect(g) ==
    /\ ~crashed
    /\ gs[g].pc = "select"
    /\ LET w == gs[g].w
       IN  IF watchers[w].closed
           THEN /\ gs' = [gs EXCEPT ![g].pc = "done"]
                /\ UNCHANGED <<watchers, oaw>>
           ELSE /\ watchers[w].q # <<>>
                /\ watchers' = [watchers EXCEPT ![w].q = Tail(@)]
                /\ IF Disruptive(Head(watchers[w].q))
                   THEN /\ oaw' = Append(oaw, [NewCall EXCEPT
                                                  !.op = Head(watchers[w].q)])
                        /\ gs' = [gs EXCEPT ![g].pc = "reopen",
                                            ![g].k = Len(oaw) + 1]
                   ELSE /\ gs' = [gs EXCEPT ![g].pc = "read"]
                        /\ oaw' = oaw
    /\ UNCHANGED <<config, path, content, budget, handles, t, client,
                   received, crashed, hist>>

\* openAndWatch returns to the goroutine: log.Fatalln on an error
GReopened(g) ==
    /\ ~crashed
    /\ gs[g].pc = "reopen"
    /\ oaw[gs[g].k].timeout # <<>>
    /\ oaw' = [oaw EXCEPT ![gs[g].k].timeout = Tail(@)]
    /\ IF Head(oaw[gs[g].k].timeout) # ErrNil
       THEN /\ crashed' = TRUE
            /\ gs' = gs
       ELSE /\ crashed' = FALSE
            /\ gs' = [gs EXCEPT ![g] = AtSelect(g)]
    /\ UNCHANGED <<config, path, content, budget, handles, watchers, t,
                   client, received, hist>>

\* a Write event: readLines
GRead(g) ==
    /\ ~crashed
    /\ gs[g].pc = "read"
    /\ DoReadLines(g)
    /\ UNCHANGED <<config, path, content, budget, watchers, oaw, client,
                   received, crashed, hist>>

\* t.Lines <- line, with the consumer's receive (the channel is unbuffered)
Deliver(g) ==
    /\ ~crashed
    /\ gs[g].pc = "send"
    /\ received' = Append(received, gs[g].line)
    /\ gs' = [gs EXCEPT ![g] = AtSelect(g)]
    /\ UNCHANGED <<config, path, content, budget, handles, watchers, t, oaw,
                   client, crashed, hist>>

----------------------------------------------------------------------------
\* The caller of NewTail

\* openAndWatch's select, and NewTail's return
NewTailReturns ==
    /\ ~crashed
    /\ client.pc = "wait"
    /\ oaw[1].timeout # <<>>
    /\ oaw' = [oaw EXCEPT ![1].timeout = Tail(@)]
    /\ client' = [pc |-> IF Head(oaw[1].timeout) = ErrNil THEN "ok" ELSE "failed",
                  err |-> Head(oaw[1].timeout)]
    /\ UNCHANGED <<config, path, content, budget, handles, watchers, t, gs,
                   received, crashed, hist>>

\* Close: t.file.Close()
CloseFileStep ==
    /\ ~crashed
    /\ client.pc = "ok"
    /\ budget.closes > 0
    /\ handles' = CloseFile(handles, t.file)
    /\ client' = [client EXCEPT !.pc = "closing"]
    /\ budget' = [budget EXCEPT !.closes = @ - 1]
    /\ UNCHANGED <<config, path, content, watchers, t, oaw, gs,
                   received, crashed, hist>>

\* Close: if t.watcher != nil { t.watcher.Close() }, and Close returns
CloseWatcherStep ==
    /\ ~crashed
    /\ client.pc = "closing"
    /\ watchers' = CloseWatcher(watchers, t.watcher)
    /\ client' = [client EXCEPT !.pc = "closed"]
    /\ UNCHANGED <<config, path, content, budget, handles, t, oaw, gs,
                   received, crashed, hist>>

----------------------------------------------------------------------------
\* The environment: other processes that write, rename, remove and create
\* the file at the path

\* what one append writes: one line, two lines, or bytes without a newline
Chunk(kind) ==
    CASE kind = "lines"    -> <<NextByte, NL>>
      [] kind = "doubles"  -> <<NextByte, NL, NextByte + 1, NL>>
      [] kind = "partials" -> <<NextByte>>

Watched(i) ==
    \E w \in DOMAIN watchers : ~watchers[w].closed /\ watchers[w].ino = i

Opened(i) ==
    \E h \in DOMAIN handles : ~handles[h].closed /\ handles[h].ino = i

\* one write(2) appends to the file at the path; the event source reports it
EnvAppend ==
    /\ ~crashed
    /\ path # Nil
    /\ \E kind \in {"lines", "doubles", "partials"} :
          /\ budget[kind] > 0
          /\ content' = [content EXCEPT ![path] = @ \o Chunk(kind)]
          /\ budget' = [budget EXCEPT ![kind] = @ - 1]
          /\ hist' = [hist EXCEPT
                        !.missed = @ \/ (Opened(path) /\ ~Watched(path)),
                        !.multi = @ \/ kind # "lines",
                        !.late = @ \/ client.pc = "closed"]
    /\ watchers' = Post(watchers, Write, path)
    /\ UNCHANGED <<config, path, handles, t, oaw, gs, client, received, crashed>>

\* the file is renamed away or removed
EnvRotate ==
    /\ ~crashed
    /\ path # Nil
    /\ budget.rotations > 0
    /\ \E op \in {Rename, Remove} : watchers' = Post(watchers, op, path)
    /\ path' = Nil
    /\ budget' = [budget EXCEPT !.rotations = @ - 1]
    /\ UNCHANGED <<config, content, handles, t, oaw, gs, client, received,
                   crashed, hist>>

\* an empty file is created at the path
EnvCreate ==
    /\ ~crashed
    /\ path = Nil
    /\ budget.creates > 0
    /\ content' = Append(content, <<>>)
    /\ path' = Len(content) + 1
    /\ watchers' = Post(watchers, Create, Len(content) + 1)
    /\ budget' = [budget EXCEPT !.creates = @ - 1]
    /\ UNCHANGED <<config, handles, t, oaw, gs, client, received,
                   crashed, hist>>

----------------------------------------------------------------------------
\* Steps of the program and of its caller, without those of a re-open
Program ==
    \/ \E k \in DOMAIN oaw : RetryOpenClose(k)
    \/ \E k \in DOMAIN oaw : RetryOpen(k)
    \/ \E k \in DOMAIN oaw : RetryWatchClose(k)
    \/ \E k \in DOMAIN oaw : RetryWatch(k)
    \/ \E k \in DOMAIN oaw : RetrySend(k)
    \/ \E k \in DOMAIN oaw : TimerFire(k)
    \/ \E g \in DOMAIN gs : GStart(g)
    \/ \E g \in DOMAIN gs : GSelect(g)
    \/ \E g \in DOMAIN gs : GRead(g)
    \/ \E g \in DOMAIN gs : Deliver(g)
    \/ NewTailReturns
    \/ CloseFileStep
    \/ CloseWatcherStep

Next ==
    \/ Program
    \/ \E g \in DOMAIN gs : GReopened(g)
    \/ EnvAppend
    \/ EnvRotate
    \/ EnvCreate

\* Every run explored: the file may be rotated (Config.Timeout = 0)
Init == InitOf(Scenarios)

Spec == Init /\ [][Next]_vars

\* The runs in which the file, once it exists, stays at the path
NextSteady ==
    \/ Program
    \/ EnvAppend
    \/ EnvCreate

InitSteady == InitOf(FollowScenarios \cup BurstScenarios \cup StartScenarios)

SpecSteady == InitSteady /\ [][NextSteady]_vars

----------------------------------------------------------------------------
\* Vocabulary of the properties

IsPrefix(a, b) == Len(a) <= Len(b) /\ a = SubSeq(b, 1, Len(a))

\* the background tasks that have not ended: retry goroutines, timer
\* goroutines, watcher goroutines
LiveRetries == {k \in DOMAIN oaw : oaw[k].retry # "done"}
LiveTimers == {k \in DOMAIN oaw : oaw[k].timer = "sleep"}
LiveWatchers == {g \in DOMAIN gs : gs[g].pc # "done"}
LiveTasks == Cardinality(LiveRetries) + Cardinality(LiveTimers)
                + Cardinality(LiveWatchers)

\* nothing is left to do but wait for events: every retry goroutine has
\* ended, every watcher goroutine waits on an open watcher with no event
Quiescent ==
    /\ ~crashed
    /\ LiveRetries = {}
    /\ \A g \in DOMAIN gs :
          /\ gs[g].pc = "select"
          /\ ~watchers[gs[g].w].closed
          /\ watchers[gs[g].w].q = <<>>

\* the complete lines written to the file of handle h after h was opened
AppendedSince(h) ==
    LET c == content[handles[h].ino]
    IN  LinesOf(SubSeq(c, handles[h].base + 1, Len(c)))

----------------------------------------------------------------------------
\* C1.  The file exists at NewTail, Timeout > 0, NewTail has returned nil and
\* Close has not been called; every append made while the handle was open
\* wrote one line and was reported by one Write event.  Then what the
\* consumer has received is, in order, lines appended after the open, each
\* once, newline stripped, and nothing that was in the file at the open; and
\* when the goroutine is back waiting with no event left, it is all of them.
C1_Case ==
    /\ hist.existed /\ config > 0 /\ path = 1
    /\ client.pc = "ok"
    /\ ~hist.missed /\ ~hist.multi

C1_AppendedLinesOnce ==
    C1_Case =>
        IF t.file = Nil THEN received = <<>>
        ELSE /\ IsPrefix(received, AppendedSince(t.file))
             /\ Quiescent => received = AppendedSince(t.file)

C1_Witness ==
    /\ C1_Case /\ t.file # Nil /\ Quiescent
    /\ handles[t.file].base = Len(InitContent)
    /\ Len(received) = 2

----------------------------------------------------------------------------
\* C5.  Timeout = 0 and the first open attempt finds no file: the retry
\* goroutine has ended after that one attempt, the channel carries the
\* not-found error or NewTail has returned it, no handle, watcher, timer or
\* watcher goroutine was ever made, and once NewTail has returned no task runs.
C5_Case == config = 0 /\ oaw[1].newFile /\ handles = <<>>

C5_NotFoundNoTasks ==
    C5_Case =>
        /\ oaw[1].retry = "done" /\ oaw[1].timer = "none"
        /\ gs = <<>> /\ watchers = <<>> /\ t.file = Nil
        /\ IF client.pc = "wait"
           THEN oaw[1].timeout = <<ErrNotExist>>
           ELSE /\ client = [pc |-> "failed", err |-> ErrNotExist]
                /\ LiveTasks = 0

C5_Witness == C5_Case /\ client.pc = "failed" /\ path # Nil

----------------------------------------------------------------------------
\* C3 as amended.  The path does not exist at NewTail, Timeout > 0.  Nothing
\* is received while no file was ever created; NewTail returns an error only
\* after the timer has fired; and when an open attempt hit not-found before
\* the file was created, one line was appended to the file and NewTail has
\* returned nil (Close not called), the consumer receives that line at most
\* once and nothing else, and has received it when the goroutine is back
\* waiting with no event left.
C3_Case == ~hist.existed /\ config > 0

C3_OneLine == content = <<<<1, NL>>>>

C3_FreshFileLine ==
    C3_Case =>
        /\ content = <<>> => received = <<>>
        /\ client.pc = "failed" => oaw[1].timer = "done"
        /\ (oaw[1].newFile /\ C3_OneLine /\ client.pc = "ok") =>
              /\ IsPrefix(received, <<<<1>>>>)
              /\ Quiescent => received = <<<<1>>>>

C3_Witness ==
    /\ C3_Case /\ oaw[1].newFile /\ C3_OneLine /\ client.pc = "ok"
    /\ Quiescent /\ received = <<<<1>>>>

\* C3 as stated: whenever the file was created and one line appended before
\* the timer fired, NewTail does not fail and the line is received once the
\* goroutine is back waiting.
C3_Claim ==
    C3_Case =>
        /\ content = <<>> => received = <<>>
        /\ (C3_OneLine /\ oaw[1].timer = "sleep" /\ Quiescent) =>
              /\ client.pc # "failed"
              /\ received = <<<<1>>>>

----------------------------------------------------------------------------
\* C2 as stated.  No line of a file is received twice, and when the file was renamed
\* away or removed while it was watched and a new file with one line is at
\* the path, that line has been received once the goroutines are back
\* waiting with no event left.
NoDuplicates(s) ==
    \A i, j \in DOMAIN s : (s[i] = s[j] /\ s[i] # <<>>) => i = j

Received(line) == \E i \in DOMAIN received : received[i] = line

C2_Claim ==
    /\ NoDuplicates(received)
    /\ (/\ hist.existed /\ path = 2 /\ Len(LinesOf(content[2])) = 1
        /\ watchers # <<>> /\ watchers[1].ino = 1 /\ client.pc = "ok"
        /\ Quiescent)
          => Received(LinesOf(content[2])[1])

\* C4 as stated.  The file exists and stays; one append wrote two lines and
\* was reported by one Write event: both lines have been received, in order,
\* once the goroutine is back waiting with no event left.
C4_Claim ==
    (/\ hist.existed /\ path = 1 /\ ~hist.missed
     /\ client.pc \in {"wait", "ok"} /\ t.file # Nil
     /\ content[1] = InitContent \o <<2, NL, 3, NL>>
     /\ handles[t.file].base = Len(InitContent)
     /\ Quiescent)
        => received = <<<<2>>, <<3>>>>

\* C6 as stated.  Timeout > 0 and no file was ever at the path: NewTail does
\* not return nil, and the error it returns is the not-found error.
C6_Claim ==
    (~hist.existed /\ config > 0 /\ content = <<>>) =>
        /\ client.pc # "ok"
        /\ client.pc = "failed" => client.err = ErrNotExist

\* C7 as stated.  The file exists, is not written to or rotated, Timeout > 0,
\* NewTail returned nil and Close has returned, the timer has fired and no
\* task has a step left to take: then no task of the Follower is alive.
Settled ==
    /\ LiveRetries = {} /\ LiveTimers = {}
    /\ \A g \in DOMAIN gs :
          \/ gs[g].pc = "done"
          \/ /\ gs[g].pc = "select"
             /\ ~watchers[gs[g].w].closed
             /\ watchers[gs[g].w].q = <<>>

C7_Claim ==
    (/\ hist.existed /\ config > 0 /\ content = <<InitContent>> /\ path = 1
     /\ client.pc = "closed" /\ Settled)
        => LiveTasks = 0

\* C8 as stated, for a file that exists at NewTail.  Once Close has returned,
\* and with no append after it, the consumer receives nothing more.
C8_Claim ==
    [][(hist.existed /\ client.pc = "closed" /\ ~hist.late)
          => received' = received]_vars

\* C9 as stated.  Timeout = 0: as soon as openFile or watchFile has failed
\* the retry goroutine has ended and that error is on the channel or has
\* been returned by NewTail.
C9_Claim ==
    (config = 0 /\ oaw[1].err # ErrNil) =>
        /\ oaw[1].retry = "done"
        /\ \/ oaw[1].timeout = <<oaw[1].err>>
           \/ client = [pc |-> "failed", err |-> oaw[1].err]

\* C10 as stated.  The lines are received in the order of the files and,
\* within a file, in the order of the file (the bytes are numbered in the
\* order they were written, and a file is not written to once it has left
\* the path).
C10_Claim ==
    \A i, j \in DOMAIN received :
        (i < j /\ received[i] # <<>> /\ received[j] # <<>>)
            => received[i][1] < received[j][1]

----------------------------------------------------------------------------
\* the complete lines of every file that was ever at the path
FileLines == UNION {{LinesOf(content[f])[j] : j \in DOMAIN LinesOf(content[f])}
                       : f \in DOMAIN content}

\* every handle was opened when its file ended with a complete line
OpenedAtLineEnd ==
    \A h \in DOMAIN handles :
        \/ handles[h].base = 0
        \/ content[handles[h].ino][handles[h].base] = NL

\* C11 as stated, for Timeout = 0 and files never opened in the middle of a
\* line.  Every string received from Lines is one complete line of a
\* followed file, newline stripped: not the empty string of a failed read,
\* not bytes without their newline, not the tail of a line.
C11_Claim ==
    (config = 0 /\ OpenedAtLineEnd) =>
        \A i \in DOMAIN received : received[i] \in FileLines

\* C13 as stated.  What is received with the last byte of a line that was
\* appended while the current handle was open is that whole line: the bytes
\* of the line read earlier, at end-of-data, are not dropped.
C13_Claim ==
    t.file # Nil =>
        \A i \in DOMAIN received : \A j \in DOMAIN AppendedSince(t.file) :
            LET line == AppendedSince(t.file)[j]
            IN  (/\ received[i] # <<>> /\ line # <<>>
                 /\ received[i][Len(received[i])] = line[Len(line)])
                    => received[i] = line

----------------------------------------------------------------------------
OpenHandles == {h \in DOMAIN handles : ~handles[h].closed}

OpenWatchers == {w \in DOMAIN watchers : ~watchers[w].closed}

\* C12 as stated, for Timeout = 0.  At most one file handle and at most one
\* watcher of the Tail are open.
C12_Claim ==
    config = 0 => Cardinality(OpenHandles) <= 1 /\ Cardinality(OpenWatchers) <= 1

\* the goroutines whose loop receives from the watcher the Tail holds
LoopingOn(w) ==
    {g \in DOMAIN gs : gs[g].pc \in {"select", "read", "send"} /\ gs[g].w = w}

\* C14 as stated, for Timeout = 0.  At most one goroutine receives from the
\* Events channel of the watcher the Tail holds.
C14_Claim ==
    (config = 0 /\ t.watcher # Nil) => Cardinality(LoopingOn(t.watcher)) <= 1

\* C15 as stated.  A handle opened by an openAndWatch that a Create event
\* started reads its file from offset 0.
C15_Claim ==
    \A h \in DOMAIN handles :
        oaw[handles[h].by].op = Create => handles[h].from = 0

\* C16 as stated.  A re-open that fails does not end the process.
C16_Claim == ~crashed

----------------------------------------------------------------------------
\* Scheduling.  A goroutine that can take a step takes it: the retry
\* goroutine and the timer of every call, every watcher goroutine, the caller
\* blocked in NewTail or inside Close.  Nothing obliges the consumer to
\* receive from Lines, the caller to call Close, or other processes to touch
\* the file.

\* at most one call of openAndWatch, and one watcher goroutine, for NewTail
\* and for every event of a rotation
MaxCalls == 1 + MaxRotations + MaxCreates

RetryStep(k) ==
    \/ RetryOpenClose(k)
    \/ RetryOpen(k)
    \/ RetryWatchClose(k)
    \/ RetryWatch(k)
    \/ RetrySend(k)

WatcherStep(g) ==
    \/ GStart(g)
    \/ GSelect(g)
    \/ GReopened(g)
    \/ GRead(g)

Fairness ==
    /\ \A k \in 1..MaxCalls :
          /\ WF_vars(k \in DOMAIN oaw /\ RetryStep(k))
          /\ WF_vars(k \in DOMAIN oaw /\ TimerFire(k))
    /\ \A g \in 1..MaxCalls : WF_vars(g \in DOMAIN gs /\ WatcherStep(g))
    /\ WF_vars(NewTailReturns)
    /\ WF_vars(CloseWatcherStep)

\* The runs in which the caller may call Close, with or without a rotation
InitClose == InitOf(FollowScenarios \cup RotateCloseScenarios)

SpecClose == InitClose /\ [][Next]_vars /\ Fairness

WatchersEnded == \A g \in DOMAIN gs : gs[g].pc = "done"

\* C17 as stated, for Timeout = 0.  Once Close has returned, every watcher
\* goroutine eventually ends (or the process has ended).
C17_Claim == (config = 0 /\ client.pc = "closed") ~> (crashed \/ WatchersEnded)

----------------------------------------------------------------------------
\* C18 as stated.  Timeout > 0 and NewTail has returned an error: from then
\* on the retry goroutine takes no step, no handle, watcher or watcher
\* goroutine is made, and nothing is received from Lines.
C18_Claim ==
    [][(config > 0 /\ client.pc = "failed") =>
          /\ oaw[1].retry' = oaw[1].retry
          /\ handles' = handles /\ watchers' = watchers /\ gs' = gs
          /\ received' = received]_vars

\* the Tail holds an open handle and an open watcher added on the path
Following ==
    /\ t.file # Nil /\ ~handles[t.file].closed
    /\ t.watcher # Nil /\ ~watchers[t.watcher].closed
    /\ watchers[t.watcher].ino # Nil

\* C19 as stated (the file is not rotated).  NewTail has returned nil and
\* Close has not been called: the retry goroutine has completed openFile and
\* watchFile without error, the handle is open and the watcher established.
C19_Claim ==
    client.pc = "ok" => oaw[1].retry \in {"send", "done"} /\ Following

\* C20 as stated, for Timeout = 0.  Once Close has returned the Tail has no
\* open handle and no open watcher.
C20_Claim ==
    (config = 0 /\ client.pc = "closed") =>
        OpenHandles = {} /\ OpenWatchers = {}

====
